---- MODULE Spec2Model ----
(***************************************************************************)
(* A model of summarize_transcriptions.py: TranscriptionSummarizer's       *)
(* chunk_text (the splitter), process_file (the reducer and structurer)    *)
(* and process_directory (the run over all documents).                     *)
(*                                                                         *)
(* A Python str is a sequence of tokens: one-character strings in the texts *)
(* chunk_text splits, whole fixed texts in prompts and service responses.   *)
(* Indices are Python's: 0-based, half-open slices.                         *)
(***************************************************************************)
EXTENDS Integers, Sequences, FiniteSets, TLC

VARIABLES
    chunk_size,       \* self.chunk_size
    overlap,          \* self.overlap
    cpc,              \* position inside chunk_text: "idle", "entry", "loop", "done"
    text,             \* chunk_text's argument
    start,            \* chunk_text's cursor
    chunks,           \* chunk_text's list of segments (its return value at "done")
    ranges,           \* history: the <<start, end>> pair of every text[start:end] cut
    pc,               \* position inside process_directory / process_file
    txt_files,        \* process_directory: the sorted *.txt files (file ids)
    fi,               \* process_directory: i of enumerate(txt_files, 1)
    results,          \* process_directory: results
    failed,           \* process_directory: failed
    saved,            \* the <stem>_summary.json files written
    index_file,       \* all_summaries_index.json, PyNone until written
    md_file,          \* all_summaries.md, PyNone until opened
    metadata,         \* process_file: metadata
    ci,               \* process_file: i of enumerate(chunks, 1)
    chunk_summaries,  \* process_file: chunk_summaries
    summary,          \* process_file: summary
    calls,            \* history: the call_ollama calls of the current process_file
    result,           \* what process_file returned
    exc               \* the exception process_file or the save raised, "" when none

chunkVars == <<cpc, text, start, chunks, ranges>>
configVars == <<chunk_size, overlap>>
fileVars == <<metadata, ci, chunk_summaries, summary, calls, result, exc>>
runVars == <<pc, txt_files, fi, results, failed, saved, index_file, md_file>>
vars == <<chunk_size, overlap, cpc, text, start, chunks, ranges,
          pc, txt_files, fi, results, failed, saved, index_file, md_file,
          metadata, ci, chunk_summaries, summary, calls, result, exc>>

----------------------------------------------------------------------------
(* Bounds of the model. *)

MaxLen == 4        \* exhaustively enumerated texts have at most MaxLen characters
MaxChunkSize == 3  \* exhaustively enumerated configurations: chunk_size, overlap <= MaxChunkSize
MaxFiles == 2      \* a directory listing holds at most MaxFiles files
MaxIter == MaxLen + 2  \* iterations of the splitting loop followed before a run is cut off

(* Program constants. *)

DefaultChunkSize == 6000
DefaultOverlap == 500
LookBack == 200

----------------------------------------------------------------------------
(* Python built-ins used by chunk_text. *)

Max(a, b) == IF a >= b THEN a ELSE b
Min(a, b) == IF a <= b THEN a ELSE b

SetMax(S) == CHOOSE x \in S : \A y \in S : y <= x
SetMin(S) == CHOOSE x \in S : \A y \in S : x <= y

\* a slice bound i of a str of length n, as Python clamps it
SliceIndex(i, n) == IF i < 0 THEN Max(i + n, 0) ELSE Min(i, n)

\* s[i:j]
Slice(s, i, j) ==
    LET a == SliceIndex(i, Len(s))
        b == SliceIndex(j, Len(s))
    IN  IF a >= b THEN <<>> ELSE SubSeq(s, a + 1, b)

\* s.rfind(sub): the highest 0-based index where sub starts in s, or -1
RFind(s, sub) ==
    LET hits == {p \in 0..(Len(s) - Len(sub)) : SubSeq(s, p + 1, p + Len(sub)) = sub}
    IN  IF hits = {} THEN -1 ELSE SetMax(hits)

Whitespace == {" ", "\t", "\n", "\r"}

\* s.strip(): s without its leading and trailing whitespace characters
Strip(s) ==
    IF \A i \in 1..Len(s) : s[i] \in Whitespace THEN <<>>
    ELSE LET first == CHOOSE i \in 1..Len(s) :
                          s[i] \notin Whitespace /\ \A j \in 1..(i - 1) : s[j] \in Whitespace
             last == CHOOSE i \in 1..Len(s) :
                          s[i] \notin Whitespace /\ \A j \in (i + 1)..Len(s) : s[j] \in Whitespace
         IN  SubSeq(s, first, last)

----------------------------------------------------------------------------
(* chunk_text *)

sentence_ends == << <<".">>, <<"!">>, <<"?">>, <<"\n", "\n">> >>

\* the for loop over sentence_ends: last_break after endings k.. have been tried
RECURSIVE LastBreakFrom(_, _, _)
LastBreakFrom(chunk_end, k, last_break) ==
    IF k > Len(sentence_ends) THEN last_break
    ELSE LET pos == RFind(chunk_end, sentence_ends[k])
         IN  LastBreakFrom(chunk_end, k + 1, IF pos > last_break THEN pos ELSE last_break)

\* the start of the region searched for a sentence boundary
RegionStart(s, end) == Max(s, end - LookBack)

\* the end a boundary at last_break gives
BreakEnd(base, last_break) == base + last_break + 1

\* the value of end when text[start:end] is cut, for the cursor s
WindowEnd(t, s, cs) ==
    LET end == s + cs
    IN  IF end < Len(t)
        THEN LET base == RegionStart(s, end)
                 chunk_end == Slice(t, base, end)
                 last_break == LastBreakFrom(chunk_end, 1, -1)
             IN  IF last_break > 0 THEN BreakEnd(base, last_break) ELSE end
        ELSE end

\* the segment appended for the range [s, e)
Segment(t, s, e) == Strip(Slice(t, s, e))

\* the segment returned for a text that fits one chunk
WholeText(t) == t

\* the cursor of the next iteration
NextStart(end, ov) == end - ov

----------------------------------------------------------------------------
(* Inputs. *)

Alphabet == {"a", ".", " ", "\n"}

RECURSIVE SeqsUpTo(_, _)
SeqsUpTo(S, n) ==
    IF n = 0 THEN {<<>>}
    ELSE LET shorter == SeqsUpTo(S, n - 1)
         IN  shorter \cup {Append(s, c) : s \in {x \in shorter : Len(x) = n - 1}, c \in S}

SmallTexts == SeqsUpTo(Alphabet, MaxLen)

\* what a mark of kind k puts at offset d after its position
MarkKinds == {".", "!", "?", "\n\n", " "}
MarkChar(k, d) ==
    IF k = "\n\n" THEN (IF d \in {0, 1} THEN "\n" ELSE "a")
    ELSE IF d = 0 THEN k ELSE "a"

\* a text of n letters with the marks (<<0-based position, kind>>) written over them
MkText(n, marks) ==
    [i \in 1..n |->
        IF \E m \in marks : m[1] = i - 1 THEN MarkChar((CHOOSE m \in marks : m[1] = i - 1)[2], 0)
        ELSE IF \E m \in marks : m[1] = i - 2 /\ m[2] = "\n\n" THEN "\n"
        ELSE "a"]

\* positions where a mark matters to a first window of cs characters
MarkPositions(cs, n) ==
    {p \in {1, cs - LookBack - 1, cs - LookBack, cs - LookBack + 1, cs - 2, cs - 1, n - 1} :
        p >= 0 /\ p < n}

MarkSets(cs, n) ==
    LET one == {<<p, k>> : p \in MarkPositions(cs, n), k \in MarkKinds}
    IN  {{}} \cup {{m} : m \in one}
             \cup {{pr[1], pr[2]} : pr \in {q \in one \X one :
                        q[2][1] > q[1][1] + 1 /\ q[2][2] \in {".", "\n\n"}}}

LongTexts(cs) == {MkText(n, marks) : n \in {cs + 1}, marks \in MarkSets(cs, cs + 1)}
                 \cup {MkText(cs + LookBack, marks) : marks \in MarkSets(cs, cs + LookBack)}

\* the texts chunk_text is called with under a configuration
Texts(cs) == IF cs <= MaxChunkSize THEN SmallTexts ELSE LongTexts(cs)

\* configurations: all small ones, one where a window cut at a boundary can be
\* shorter than the overlap, the ones around the look-back, the default
Configs ==
    {<<cs, ov>> : cs \in 1..MaxChunkSize, ov \in 0..MaxChunkSize}
    \cup {<<7, 3>>}
    \cup {<<LookBack + 2, 1>>, <<LookBack + 2, 0>>, <<LookBack + MaxChunkSize, LookBack>>}
    \cup {<<DefaultChunkSize, DefaultOverlap>>}

----------------------------------------------------------------------------
(* Python values of process_file and process_directory. *)

\* None where a str is expected; no str equals it
None == <<"<None>">>

\* None where a dict is expected
PyNone == [t |-> "None"]

\* Values decoded from JSON and dict entries carry their Python type in t.
PyStr(x) == [t |-> "str", v |-> x]
PyInt(n) == [t |-> "int", v |-> n]
PyList(xs) == [t |-> "list", v |-> xs]
PyDict(f) == [t |-> "dict", v |-> f]

\* bool(s) of a str or None
Truthy(s) == s # None /\ s # <<>>

\* bool(x) of a typed value
TruthyV(x) ==
    CASE x.t = "None" -> FALSE
      [] x.t = "str" -> x.v # <<>>
      [] x.t = "int" -> x.v # 0
      [] x.t = "list" -> Len(x.v) > 0
      [] x.t = "dict" -> DOMAIN x.v # {}

\* d[k] = v
DictSet(d, k, v) == [x \in DOMAIN d \cup {k} |-> IF x = k THEN v ELSE d[x]]

\* sep.join(xs)
RECURSIVE Join(_, _)
Join(xs, sep) ==
    IF Len(xs) = 0 THEN <<>>
    ELSE IF Len(xs) = 1 THEN xs[1]
    ELSE xs[1] \o sep \o Join(Tail(xs), sep)

\* len(content.split()): the maximal runs of non-whitespace characters
WordCount(content) ==
    Cardinality({i \in 1..Len(content) :
        /\ content[i] \notin Whitespace
        /\ (i = 1 \/ content[i - 1] \in Whitespace)})

----------------------------------------------------------------------------
(* call_ollama's prompts and responses. *)

Separator == <<"\n", "\n", "-", "-", "-", "\n", "\n">>

PartialPrompt(chunk) ==
    <<"Summarize this portion of a meeting transcript. [...]\n\n">> \o chunk
        \o <<"\n\nProvide a concise summary covering main topics discussed.">>

WholePrompt(chunk) ==
    <<"Summarize this meeting transcript. Focus on: [...]\n\nTranscript:\n">> \o chunk
        \o <<"\n\nProvide a well-organized summary.">>

\* summarize_chunk's prompt
SummarizePrompt(chunk, is_partial) ==
    IF is_partial THEN PartialPrompt(chunk) ELSE WholePrompt(chunk)

\* combine_summaries' prompt
CombinePrompt(summaries) ==
    <<"The following are summaries of different parts [...]\n\nPartial summaries:\n">>
        \o Join(summaries, Separator)
        \o <<"\n\nProvide the final combined summary.">>

\* organize_summary's prompt
OrganizePrompt(s, md) ==
    <<"From this meeting summary, extract: [...] 2. Date (if mentioned in content): ">>
        \o md.date \o <<"[...]\n\nMeeting Summary:\n">> \o s
        \o <<"\n\nRespond in JSON format with these fields: [...]">>

\* What the service answers: None stands for every failed call (a status other
\* than 200, a timeout, a connection error).
SegmentSummary(k) == <<"s", ToString(k)>>
WholeSummary == <<"w">>
CombinedSummary == <<"c">>

NotJson == <<"not json at all">>
JsonGood == <<"{\"title\": \"Standup\", \"date\": \"2024-10-14\", \"participants\": [\"A\", \"B\"], \"topics\": [\"X\"], \"decisions\": [], \"action_items\": [], \"tags\": [\"t1\"]}">>
JsonBadParticipants == <<"{\"title\": \"Standup\", \"participants\": 5}">>
JsonList == <<"[\"Standup\"]">>
JsonNumber == <<"42">>

OrganizeResponses == {None, NotJson, JsonGood, JsonBadParticipants, JsonList, JsonNumber}

\* json.loads(response): the decoded value, or raised (TypeError for None,
\* JSONDecodeError for a text that is no JSON document)
JsonLoads(response) ==
    CASE response = JsonGood ->
            [raised |-> FALSE,
             value |-> PyDict([title |-> PyStr(<<"Standup">>),
                               date |-> PyStr(<<"2024-10-14">>),
                               participants |-> PyList(<<PyStr(<<"A">>), PyStr(<<"B">>)>>),
                               topics |-> PyList(<<PyStr(<<"X">>)>>),
                               decisions |-> PyList(<<>>),
                               action_items |-> PyList(<<>>),
                               tags |-> PyList(<<PyStr(<<"t1">>)>>)])]
      [] response = JsonBadParticipants ->
            [raised |-> FALSE,
             value |-> PyDict([title |-> PyStr(<<"Standup">>), participants |-> PyInt(5)])]
      [] response = JsonList ->
            [raised |-> FALSE, value |-> PyList(<<PyStr(<<"Standup">>)>>)]
      [] response = JsonNumber ->
            [raised |-> FALSE, value |-> PyInt(42)]
      [] OTHER -> [raised |-> TRUE, value |-> PyNone]

----------------------------------------------------------------------------
(* extract_metadata and organize_summary. *)

\* filename.replace('.txt', '').split(' -- ', 1), on the tokens of the name
NameParts(filename) ==
    LET name == SelectSeq(filename, LAMBDA tok : tok # ".txt")
        seps == {i \in 1..Len(name) : name[i] = " -- "}
    IN  IF seps = {} THEN <<name>>
        ELSE LET i == CHOOSE j \in seps : \A k \in seps : j <= k
             IN  <<SubSeq(name, 1, i - 1), SubSeq(name, i + 1, Len(name))>>

extract_metadata(filename, content) ==
    LET parts == NameParts(filename)
    IN  [filename |-> filename,
         date |-> IF Len(parts) > 0 THEN parts[1] ELSE <<"unknown">>,
         title |-> IF Len(parts) > 1 THEN parts[2] ELSE filename,
         word_count |-> WordCount(content),
         char_count |-> Len(content)]

\* the except branch of organize_summary
FallbackRecord(s, md) ==
    PyDict([title |-> PyStr(md.title), date |-> PyStr(md.date), raw_summary |-> PyStr(s)])

\* structured after the try statement
Structured(response, s, md) ==
    LET parsed == JsonLoads(response)
    IN  IF parsed.raised THEN FallbackRecord(s, md) ELSE parsed.value

\* structured["metadata"] = metadata; structured["summary"] = summary:
\* item assignment with a str key raises TypeError on everything but a dict
Attach(structured, s, md) ==
    IF structured.t = "dict"
    THEN [raised |-> FALSE,
          value |-> PyDict(DictSet(DictSet(structured.v, "metadata", md), "summary", PyStr(s)))]
    ELSE [raised |-> TRUE, value |-> PyNone]

\* organize_summary, given the service's response: the record, or raised
organize_summary(response, s, md) == Attach(Structured(response, s, md), s, md)

----------------------------------------------------------------------------
(* The readable output. *)

\* ', '.join(x) raises TypeError unless x is an iterable of str
Joinable(x) ==
    \/ x.t \in {"str", "dict"}
    \/ x.t = "list" /\ \A i \in 1..Len(x.v) : x.v[i].t = "str"

\* for item in x raises TypeError unless x is iterable
Iterable(x) == x.t \in {"str", "dict", "list"}

\* 'key' in result and result['key']
Present(r, key) == key \in DOMAIN r.v /\ TruthyV(r.v[key])

\* writing the section of one record raises
RenderRaises(r) ==
    \/ Present(r, "participants") /\ ~Joinable(r.v["participants"])
    \/ Present(r, "topics") /\ ~Joinable(r.v["topics"])
    \/ Present(r, "decisions") /\ ~Iterable(r.v["decisions"])
    \/ Present(r, "action_items") /\ ~Iterable(r.v["action_items"])

\* the number of records whose section is written before one raises
RECURSIVE RenderedPrefix(_)
RenderedPrefix(rs) ==
    IF Len(rs) = 0 \/ RenderRaises(rs[1]) THEN 0 ELSE 1 + RenderedPrefix(Tail(rs))

----------------------------------------------------------------------------
(* The files of the input directory. *)

\* the token that starts the name of file f; names sort as their ids do
DateToken(f) == "2024-10-1" \o ToString(f)

FileName(f) ==
    IF f % 2 = 1 THEN <<DateToken(f), " -- ", "[HT] 1st meeting", ".txt">>
    ELSE <<DateToken(f), ".txt">>

\* filepath.stem
FileStem(f) == SubSeq(FileName(f), 1, Len(FileName(f)) - 1)

\* the configuration small enough for documents of two and three segments
SmallConfig == <<4, 1>>

FileContent(f) ==
    CASE f = 1 -> <<>>
      [] f = 2 -> <<"a", "b", ".">>
      [] f = 3 -> <<"a", "b", " ", "d", "e">>
      [] f = 4 -> <<"a", "b", "c", "d", ".", "f", "g", "h">>
      [] OTHER -> <<"a">>

\* the files a directory may hold under a configuration: the documents of
\* several segments only under the small one
FileIds(cs) == IF cs = SmallConfig[1] THEN {1, 2, 3, 4} ELSE {1, 2}

\* sorted(input_path.glob("*.txt")): up to MaxFiles of them, in name order
DirListings(cs) ==
    {fs \in SeqsUpTo(FileIds(cs), MaxFiles) : \A i \in 1..(Len(fs) - 1) : fs[i] < fs[i + 1]}

\* the configurations a run of process_directory is followed under
RunConfigs == {SmallConfig, <<DefaultChunkSize, DefaultOverlap>>}

----------------------------------------------------------------------------
(* Actions. *)

\* __init__: the attributes every instance starts with
InitConfig ==
    /\ chunk_size = DefaultChunkSize
    /\ overlap = DefaultOverlap

\* summarizer.chunk_size = ..., summarizer.overlap = ...: plain attributes,
\* assigned without any check
Configure ==
    /\ cpc = "idle"
    /\ pc \in {"none", "main"}
    /\ \E c \in (IF pc = "none" THEN Configs ELSE RunConfigs) :
        /\ chunk_size' = c[1]
        /\ overlap' = c[2]
    /\ UNCHANGED <<chunkVars, fileVars, runVars>>

\* a call chunk_text(t)
ChunkCall ==
    /\ cpc = "idle"
    /\ pc = "none"
    /\ \E t \in Texts(chunk_size) : text' = t
    /\ cpc' = "entry"
    /\ UNCHANGED <<start, chunks, ranges, configVars, fileVars, runVars>>

\* if len(text) <= self.chunk_size: return [text]
ChunkShort ==
    /\ cpc = "entry"
    /\ Len(text) <= chunk_size
    /\ chunks' = <<WholeText(text)>>
    /\ cpc' = "done"
    /\ UNCHANGED <<text, start, ranges, configVars, fileVars, runVars>>

\* chunks = []; start = 0
ChunkEnter ==
    /\ cpc = "entry"
    /\ Len(text) > chunk_size
    /\ chunks' = <<>>
    /\ start' = 0
    /\ ranges' = <<>>
    /\ cpc' = "loop"
    /\ UNCHANGED <<text, configVars, fileVars, runVars>>

\* one iteration of while start < len(text)
ChunkIter ==
    /\ cpc = "loop"
    /\ start < Len(text)
    /\ Len(chunks) < MaxIter
    /\ LET end == WindowEnd(text, start, chunk_size)
       IN  /\ chunks' = Append(chunks, Segment(text, start, end))
           /\ ranges' = Append(ranges, <<start, end>>)
           /\ start' = NextStart(end, overlap)
    /\ UNCHANGED <<cpc, text, configVars, fileVars, runVars>>

\* the loop condition fails: return chunks
ChunkReturn ==
    /\ cpc = "loop"
    /\ start >= Len(text)
    /\ cpc' = "done"
    /\ UNCHANGED <<text, start, chunks, ranges, configVars, fileVars, runVars>>

----------------------------------------------------------------------------
(* process_file *)

\* the file of the current iteration of process_directory
CurrentFile == txt_files[fi]

\* one call_ollama call, for the history
Call(fn, prompt, response) == [fn |-> fn, prompt |-> prompt, response |-> response]

\* only a null summary is dropped, an empty one is kept
KeptUnlessNone(summaries, chunk_summary) ==
    IF chunk_summary # None THEN Append(summaries, chunk_summary) ELSE summaries

\* if chunk_summary: chunk_summaries.append(chunk_summary)
Kept(summaries, chunk_summary) ==
    IF Truthy(chunk_summary) THEN Append(summaries, chunk_summary) ELSE summaries

\* open() and f.read() succeed; extract_metadata; chunk_text is entered
PF_Read ==
    /\ pc = "file"
    /\ fi <= Len(txt_files)
    /\ text' = FileContent(CurrentFile)
    /\ metadata' = extract_metadata(FileName(CurrentFile), FileContent(CurrentFile))
    /\ cpc' = "entry"
    /\ pc' = "chunking"
    /\ UNCHANGED <<start, chunks, ranges, configVars, ci, chunk_summaries, summary, calls,
                   result, exc, txt_files, fi, results, failed, saved, index_file, md_file>>

\* open() or f.read() raises (an unreadable file, bytes that are not UTF-8)
PF_ReadError ==
    /\ pc = "file"
    /\ fi <= Len(txt_files)
    /\ exc' = "OSError"
    /\ pc' = "pf_raised"
    /\ UNCHANGED <<chunkVars, configVars, metadata, ci, chunk_summaries, summary, calls,
                   result, txt_files, fi, results, failed, saved, index_file, md_file>>

\* len(chunks) == 1: summarize_chunk(chunks[0], is_partial=False)
PF_SummarizeWhole ==
    /\ pc = "chunking"
    /\ cpc = "done"
    /\ Len(chunks) = 1
    /\ \E r \in {None, <<>>, WholeSummary} :
        /\ summary' = r
        /\ calls' = Append(calls, Call("summarize_chunk", SummarizePrompt(chunks[1], FALSE), r))
    /\ pc' = "check"
    /\ UNCHANGED <<chunkVars, configVars, metadata, ci, chunk_summaries, result, exc,
                   txt_files, fi, results, failed, saved, index_file, md_file>>

\* else: chunk_summaries = []
PF_BeginPartial ==
    /\ pc = "chunking"
    /\ cpc = "done"
    /\ Len(chunks) # 1
    /\ chunk_summaries' = <<>>
    /\ ci' = 1
    /\ pc' = "partial"
    /\ UNCHANGED <<chunkVars, configVars, metadata, summary, calls, result, exc,
                   txt_files, fi, results, failed, saved, index_file, md_file>>

\* one iteration of for i, chunk in enumerate(chunks, 1)
PF_SummarizePartial ==
    /\ pc = "partial"
    /\ ci <= Len(chunks)
    /\ \E r \in {None, <<>>, SegmentSummary(ci)} :
        /\ chunk_summaries' = Kept(chunk_summaries, r)
        /\ calls' = Append(calls, Call("summarize_chunk", SummarizePrompt(chunks[ci], TRUE), r))
    /\ ci' = ci + 1
    /\ UNCHANGED <<chunkVars, configVars, metadata, summary, result, exc,
                   pc, txt_files, fi, results, failed, saved, index_file, md_file>>

\* summary = self.combine_summaries(chunk_summaries)
PF_Combine ==
    /\ pc = "partial"
    /\ ci > Len(chunks)
    /\ \E r \in {None, <<>>, CombinedSummary} :
        /\ summary' = r
        /\ calls' = Append(calls, Call("combine_summaries", CombinePrompt(chunk_summaries), r))
    /\ pc' = "check"
    /\ UNCHANGED <<chunkVars, configVars, metadata, ci, chunk_summaries, result, exc,
                   txt_files, fi, results, failed, saved, index_file, md_file>>

\* if not summary: return None
PF_NoSummary ==
    /\ pc = "check"
    /\ ~Truthy(summary)
    /\ result' = PyNone
    /\ pc' = "pf_returned"
    /\ UNCHANGED <<chunkVars, configVars, metadata, ci, chunk_summaries, summary, calls, exc,
                   txt_files, fi, results, failed, saved, index_file, md_file>>

\* organized = self.organize_summary(summary, metadata); return organized
PF_Organize ==
    /\ pc = "check"
    /\ Truthy(summary)
    /\ \E r \in OrganizeResponses :
        LET organized == organize_summary(r, summary, metadata)
        IN  /\ calls' = Append(calls, Call("organize_summary", OrganizePrompt(summary, metadata), r))
            /\ IF organized.raised
               THEN /\ exc' = "TypeError"
                    /\ pc' = "pf_raised"
                    /\ result' = result
               ELSE /\ result' = organized.value
                    /\ pc' = "pf_returned"
                    /\ exc' = exc
    /\ UNCHANGED <<chunkVars, configVars, metadata, ci, chunk_summaries, summary,
                   txt_files, fi, results, failed, saved, index_file, md_file>>

----------------------------------------------------------------------------
(* process_directory *)

\* the locals of process_file and chunk_text are gone; the next file is up
NextFile ==
    /\ fi' = fi + 1
    /\ pc' = "file"
    /\ cpc' = "idle"
    /\ text' = <<>>
    /\ start' = 0
    /\ chunks' = <<>>
    /\ ranges' = <<>>
    /\ metadata' = PyNone
    /\ ci' = 0
    /\ chunk_summaries' = <<>>
    /\ summary' = None
    /\ calls' = <<>>
    /\ result' = PyNone
    /\ exc' = ""

\* the listing, the early return on an empty one, get_model_info (which only
\* prints), results = [], failed = []
PD_Start ==
    /\ pc = "main"
    /\ \E fs \in DirListings(chunk_size) :
        /\ txt_files' = fs
        /\ IF Len(fs) = 0
           THEN pc' = "returned" /\ fi' = fi
           ELSE pc' = "file" /\ fi' = 1
    /\ results' = <<>>
    /\ failed' = <<>>
    /\ UNCHANGED <<chunkVars, configVars, fileVars, saved, index_file, md_file>>

\* the failed list after the save of the individual summary, which raises or not
FailedAfterSave(fl, name, save_ok) == IF save_ok THEN fl ELSE Append(fl, name)

\* process_file returned: if result: results.append(result) and the individual
\* summary is saved (an exception of the save is caught by the except branch);
\* else: failed.append(filepath.name)
PD_Result ==
    /\ pc = "pf_returned"
    /\ IF TruthyV(result)
       THEN /\ results' = Append(results, result)
            /\ \E save_ok \in BOOLEAN :
                /\ saved' = IF save_ok THEN saved \cup {FileStem(CurrentFile)} ELSE saved
                /\ failed' = FailedAfterSave(failed, FileName(CurrentFile), save_ok)
       ELSE /\ failed' = Append(failed, FileName(CurrentFile))
            /\ UNCHANGED <<results, saved>>
    /\ NextFile
    /\ UNCHANGED <<configVars, txt_files, index_file, md_file>>

\* process_file raised: except Exception: failed.append(filepath.name)
PD_Except ==
    /\ pc = "pf_raised"
    /\ failed' = Append(failed, FileName(CurrentFile))
    /\ NextFile
    /\ UNCHANGED <<configVars, txt_files, results, saved, index_file, md_file>>

\* the loop is over: all_summaries_index.json (processed_date left out)
PD_WriteIndex ==
    /\ pc = "file"
    /\ fi > Len(txt_files)
    /\ index_file' = PyDict([total_files |-> Len(txt_files),
                             successful |-> Len(results),
                             failed |-> Len(failed),
                             failed_files |-> failed,
                             summaries |-> results])
    /\ pc' = "markdown"
    /\ UNCHANGED <<chunkVars, configVars, fileVars, txt_files, fi, results, failed, saved, md_file>>

\* all_summaries.md: the header and one section per record; an exception of a
\* section leaves process_directory, with the file cut off there
PD_WriteMarkdown ==
    /\ pc = "markdown"
    /\ LET written == RenderedPrefix(results)
       IN  /\ md_file' = [t |-> "file", sections |-> written, complete |-> written = Len(results)]
           /\ pc' = IF written = Len(results) THEN "returned" ELSE "raised"
    /\ UNCHANGED <<chunkVars, configVars, fileVars, txt_files, fi, results, failed, saved, index_file>>

----------------------------------------------------------------------------
(* Specifications. *)

\* no call in progress
InitLocals ==
    /\ cpc = "idle"
    /\ text = <<>>
    /\ start = 0
    /\ chunks = <<>>
    /\ ranges = <<>>
    /\ metadata = PyNone
    /\ ci = 0
    /\ chunk_summaries = <<>>
    /\ summary = None
    /\ calls = <<>>
    /\ result = PyNone
    /\ exc = ""

InitRun ==
    /\ txt_files = <<>>
    /\ fi = 0
    /\ results = <<>>
    /\ failed = <<>>
    /\ saved = {}
    /\ index_file = PyNone
    /\ md_file = PyNone

\* a summarizer whose chunk_text is called directly
InitChunk ==
    /\ InitConfig
    /\ InitLocals
    /\ InitRun
    /\ pc = "none"

NextChunk ==
    \/ Configure
    \/ ChunkCall
    \/ ChunkShort
    \/ ChunkEnter
    \/ ChunkIter
    \/ ChunkReturn

SpecChunk == InitChunk /\ [][NextChunk]_vars

\* main(): a summarizer, then process_directory
Init ==
    /\ InitConfig
    /\ InitLocals
    /\ InitRun
    /\ pc = "main"

Next ==
    \/ Configure
    \/ PD_Start
    \/ PF_Read
    \/ PF_ReadError
    \/ ChunkShort
    \/ ChunkEnter
    \/ ChunkIter
    \/ ChunkReturn
    \/ PF_SummarizeWhole
    \/ PF_BeginPartial
    \/ PF_SummarizePartial
    \/ PF_Combine
    \/ PF_NoSummary
    \/ PF_Organize
    \/ PD_Result
    \/ PD_Except
    \/ PD_WriteIndex
    \/ PD_WriteMarkdown

Spec == Init /\ [][Next]_vars

----------------------------------------------------------------------------
(* Properties of chunk_text. *)

Returned == cpc = "done"
LongInput == Len(text) > chunk_size
ValidOverlap == 0 <= overlap /\ overlap < chunk_size

\* the character positions [First(r), Last(r)) the slice text[r[1]:r[2]] holds
First(r) == SliceIndex(r[1], Len(text))
Last(r) == SliceIndex(r[2], Len(text))

\* C3: a text no longer than chunk_size comes back as exactly one segment, the
\* text with its surrounding whitespace trimmed.
C3_ShortTextTrimmed ==
    (Returned /\ ~LongInput) => chunks = <<Strip(text)>>

\* no character position of the text is outside every range: were one, the
\* leftmost such would be 0 or the position where a range ends
NoGap ==
    \A p \in {0} \cup {Last(ranges[j]) : j \in 1..Len(ranges)} :
        p < Len(text) => \E i \in 1..Len(ranges) : First(ranges[i]) <= p /\ p < Last(ranges[i])

\* C4: for a text longer than chunk_size and 0 <= overlap < chunk_size, the
\* ranges cut by a completed chunk_text leave no character position of the
\* text out: the first starts at 0, each next one starts at or before the end
\* of the one before, the last one reaches the end of the text, and every
\* position from 0 to len(text) - 1 is in one of the slices.
C4_RangesCoverText ==
    (Returned /\ LongInput /\ ValidOverlap) =>
        /\ Len(ranges) >= 1
        /\ ranges[1][1] = 0
        /\ \A i \in 1..(Len(ranges) - 1) : ranges[i + 1][1] <= ranges[i][2]
        /\ ranges[Len(ranges)][2] >= Len(text)
        /\ NoGap

\* C5: no segment chunk_text returns is the empty string.
C5_NoEmptySegment ==
    Returned => \A i \in 1..Len(chunks) : chunks[i] # <<>>

\* C6: chunk_text is never entered with overlap >= chunk_size (such a
\* configuration is rejected before).
C6_BadConfigNeverEntersChunkText ==
    cpc \in {"entry", "loop", "done"} => overlap < chunk_size

\* C9: for a text longer than chunk_size and 0 <= overlap < chunk_size, the
\* cursor strictly increases on every iteration of the loop.
C9_CursorStrictlyIncreases ==
    (cpc \in {"loop", "done"} /\ LongInput /\ ValidOverlap) =>
        /\ \A i \in 1..(Len(ranges) - 1) : ranges[i + 1][1] > ranges[i][1]
        /\ Len(ranges) >= 1 => start > ranges[Len(ranges)][1]

\* the 0-based positions p > s where a sentence-boundary marker lies inside
\* the last LookBack characters of the window [s, s + chunk_size)
MarkersInTail(s) ==
    {m \in (Max(s + 1, s + chunk_size - LookBack)..(s + chunk_size - 1)) \X (1..Len(sentence_ends)) :
        /\ m[1] + Len(sentence_ends[m[2]]) <= s + chunk_size
        /\ SubSeq(text, m[1] + 1, m[1] + Len(sentence_ends[m[2]])) = sentence_ends[m[2]]}

\* the position just after the last marker of M
AfterLastMarker(M) ==
    LET last == CHOOSE m \in M : \A o \in M : o[1] <= m[1]
    IN  last[1] + Len(sentence_ends[last[2]])

\* C10: a window that ends before the text end is cut just after the last
\* marker ('.', '!', '?' or a blank-line break, the whole of it) found in its
\* last LookBack characters at a position greater than the window start, and
\* at start + chunk_size when there is none.
C10_CutAfterLastMarker ==
    \A i \in 1..Len(ranges) :
        LET s == ranges[i][1]
            e == ranges[i][2]
        IN  (s >= 0 /\ s + chunk_size < Len(text)) =>
                IF MarkersInTail(s) # {} THEN e = AfterLastMarker(MarkersInTail(s))
                ELSE e = s + chunk_size

----------------------------------------------------------------------------
(* Properties of process_file and process_directory. *)

SegmentCalls == SelectSeq(calls, LAMBDA c : c.fn = "summarize_chunk")
CombineCalls == SelectSeq(calls, LAMBDA c : c.fn = "combine_summaries")
OrganizeCalls == SelectSeq(calls, LAMBDA c : c.fn = "organize_summary")

\* the segment calls that failed: a null or an empty response
FailedSegments == {i \in 1..Len(SegmentCalls) : ~Truthy(SegmentCalls[i].response)}

\* the responses of the segment calls that succeeded, in segment order
RECURSIVE SurvivingFrom(_)
SurvivingFrom(cs) ==
    IF Len(cs) = 0 THEN <<>>
    ELSE (IF Truthy(cs[1].response) THEN <<cs[1].response>> ELSE <<>>) \o SurvivingFrom(Tail(cs))
Surviving == SurvivingFrom(SegmentCalls)

\* the partial summaries with the separator between them, written out
RECURSIVE JoinedBySeparator(_)
JoinedBySeparator(xs) ==
    IF Len(xs) = 0 THEN <<>>
    ELSE xs[1] \o (IF Len(xs) > 1 THEN <<"\n", "\n", "-", "-", "-", "\n", "\n">> ELSE <<>>)
               \o JoinedBySeparator(Tail(xs))

\* the text between the fixed head and tail of a combine prompt
CombineInput(c) == SubSeq(c.prompt, 2, Len(c.prompt) - 1)

\* process_file is past the summaries of a document of several segments
ReducedSeveral ==
    /\ pc \in {"check", "pf_returned", "pf_raised"}
    /\ Len(chunks) >= 2
    /\ Len(SegmentCalls) = Len(chunks)

\* process_file gave the document up: it returned None
ReturnedNone == pc = "pf_returned" /\ ~TruthyV(result)

\* C1: when every one of the N >= 2 segment calls of a document fails, no
\* combine call is made for it and the document is marked failed.
C1_AllFailedNoCombine ==
    (ReducedSeveral /\ Cardinality(FailedSegments) = Len(chunks)) =>
        /\ Len(CombineCalls) = 0
        /\ pc = "pf_returned" => ~TruthyV(result)
        /\ pc # "check" \/ ~Truthy(summary)

\* C2 as stated: when exactly one of the N >= 2 segment calls fails, the one
\* combine call gets the N-1 surviving partial summaries, in segment order,
\* joined by the separator, and the document is not marked failed.
C2_OneFailedNotMarkedFailed ==
    (ReducedSeveral /\ Cardinality(FailedSegments) = 1) =>
        /\ Len(CombineCalls) = 1
        /\ Len(Surviving) = Len(chunks) - 1
        /\ CombineInput(CombineCalls[1]) = JoinedBySeparator(Surviving)
        /\ ~ReturnedNone
        /\ pc # "pf_raised"

\* C2 as amended: when exactly one of the N >= 2 segment calls fails, the one
\* combine call gets the N-1 surviving partial summaries, in segment order,
\* joined by the separator; process_file returns None only when that combine
\* call itself returns null or empty, and raises only out of organize_summary.
C2_OneFailedCombinesTheRest ==
    (ReducedSeveral /\ Cardinality(FailedSegments) = 1) =>
        /\ Len(CombineCalls) = 1
        /\ Len(Surviving) = Len(chunks) - 1
        /\ CombineInput(CombineCalls[1]) = JoinedBySeparator(Surviving)
        /\ ReturnedNone => ~Truthy(CombineCalls[1].response)
        /\ pc = "pf_raised" => (exc = "TypeError" /\ Len(OrganizeCalls) = 1)

\* a document of three or more segments whose second segment call failed and
\* whose record process_file returned
C2_Witness ==
    /\ ReducedSeveral
    /\ Len(chunks) >= 3
    /\ FailedSegments = {2}
    /\ pc = "pf_returned"
    /\ TruthyV(result)

\* the structured-extraction response of the document
OrganizeResponse == OrganizeCalls[Len(OrganizeCalls)].response

\* C7: whatever the structured-extraction call returns, organize_summary does
\* not raise and its record carries metadata and summary; for a response that
\* is no JSON it is title, date and raw_summary, plus metadata and summary.
C7_OrganizeNeverRaises ==
    /\ exc # "TypeError"
    /\ (pc = "pf_returned" /\ TruthyV(result)) =>
        /\ {"metadata", "summary"} \subseteq DOMAIN result.v
        /\ result.v["metadata"] = metadata
        /\ result.v["summary"] = PyStr(summary)
        /\ OrganizeResponse \in {None, NotJson} =>
            /\ DOMAIN result.v = {"title", "date", "raw_summary", "metadata", "summary"}
            /\ result.v["title"] = PyStr(metadata.title)
            /\ result.v["date"] = PyStr(metadata.date)
            /\ result.v["raw_summary"] = PyStr(summary)

\* C8: a run of process_directory never ends without the index and the whole
\* readable output written: it is not left by an exception, and not before
\* the two files are written.
C8_RunWritesIndexAndOutput ==
    pc \in {"returned", "raised"} =>
        /\ pc = "returned"
        /\ index_file # PyNone
        /\ md_file # PyNone
        /\ md_file.complete

\* the names of the documents whose record is in results, and of those in failed
ResultNames == {results[i].v["metadata"].filename : i \in 1..Len(results)}
FailedNames == {failed[i] : i \in 1..Len(failed)}

\* C11: when the run index is written, every discovered document is in exactly
\* one of results and failed, never both and never neither, so that
\* successful + failed = total_files, also when the save of a record raised.
C11_EachDocumentCountedOnce ==
    index_file # PyNone =>
        /\ index_file.v.successful + index_file.v.failed = index_file.v.total_files
        /\ ResultNames \cap FailedNames = {}
        /\ ResultNames \cup FailedNames = {FileName(txt_files[i]) : i \in 1..Len(txt_files)}
        /\ Len(results) = Cardinality(ResultNames)
        /\ Len(failed) = Cardinality(FailedNames)

====
